---- MODULE Spec2Model ----
(***************************************************************************)
(* Session registry and session toggle protocol of the orchest webserver   *)
(* client (contexts/SessionsContext.tsx).                                  *)
(*                                                                         *)
(* A registry entry is a JavaScript object: it is modelled as a function   *)
(* from the property names it owns to their values, so that the object     *)
(* spread {...a, ...b} and the in-place assignment data[k] = v keep their  *)
(* meaning.  A property that is read but not owned reads as Undef.         *)
(*                                                                         *)
(* Every handler runs to its first await as one step (the UI thread is     *)
(* single threaded); network responses are separate steps.  React renders  *)
(* the queued updates before the next task runs, so a handler reads the    *)
(* latest registry through `state`, and the objects it finds there are the *)
(* objects the registry holds.                                             *)
(*                                                                         *)
(* state.sessionsIsLoading is left out: no handler of the provider reads   *)
(* it.  The server always answers a launch with the details of the         *)
(* session, so the `if (!newSessionData) return` of setSession never       *)
(* fires.                                                                  *)
(***************************************************************************)
EXTENDS Naturals, Sequences, FiniteSets, TLC

\* ---- bounds of the model ------------------------------------------------
\* calls of toggleSession, deleteAllSessions and dispatch(SET_SESSIONS) in a run
MaxCalls == 3

\* ---- values --------------------------------------------------------------
Undef == "undefined"
Projects == {"p1", "p2"}
Pipelines == {"q1"}
Statuses == {"LAUNCHING", "RUNNING", "STOPPING"}

VARIABLES
    sessions,      \* state.sessions: the ordered registry
    killAll,       \* state.sessionsKillAllInProgress
    requests,      \* every request issued so far, in order; pending or settled
    bulks,         \* one record per deleteAllSessions call
    calls,         \* how many times the entry points have been called
    op             \* the handler that ran last: its inputs and what it saw

\* the embedded JupyterLab and the object that drives it (jupyter/Jupyter.tsx)
VARIABLES
    hidden,               \* jupyterHolder has the class "hidden"
    baseAddress,          \* this.baseAddress
    reloadOnShow,         \* this.reloadOnShow
    iframeHasLoaded,      \* this.iframeHasLoaded
    showCheckInterval,    \* this.showCheckInterval: a timer id, 0 for undefined
    timers,               \* the intervals that are set and not cleared
    href,                 \* iframe.contentWindow.location.href
    nav,                  \* the navigation of the iframe that has not committed yet
    docLoaded,            \* the load event of the iframe's document has fired
    lab,                  \* contentWindow._orchest_app and what hangs off it
    pendingKernelChanges, \* this.pendingKernelChanges
    widgetKernel,         \* per notebook: the kernel of its open widget
    sessionKernel,        \* per notebook: the kernel of its persisted session
    lookups,              \* the findByPath calls that have not settled
    promptMessages,       \* store.promptMessages, the confirmations of the bridge
    attempts,             \* the changeKernel and shutdown calls that have not settled
    retryLoops,           \* one record per navigateTo call that began to try
    dispatched,           \* the actions given to dispatch that the reducer has not run yet
    history,              \* useHistory(): the entries of the session history and the current one
    locationKeysRef       \* locationKeysRef.current of useHistoryListener

bridgeVars == <<hidden, baseAddress, reloadOnShow, iframeHasLoaded, showCheckInterval,
                timers, href, nav, docLoaded, lab>>
kernelVars == <<pendingKernelChanges, widgetKernel, sessionKernel, lookups,
                promptMessages, attempts>>
sessionVars == <<sessions, killAll, requests, bulks>>

vars == <<sessions, killAll, requests, bulks, calls, op, bridgeVars, kernelVars,
          retryLoops, dispatched, history, locationKeysRef>>

\* ---- util functions ------------------------------------------------------

\* reading a property of an object: undefined when the object lacks it
Get(obj, key) == IF key \in DOMAIN obj THEN obj[key] ELSE Undef

\* a || b on identity strings (a uuid is never the empty string)
OrElse(a, b) == IF a # Undef THEN a ELSE b

\* { ...a, ...b }
Spread(a, b) ==
    [k \in (DOMAIN a) \cup (DOMAIN b) |-> IF k \in DOMAIN b THEN b[k] ELSE a[k]]

\* convertKeyToCamelCase(data, ["project_uuid", "pipeline_uuid"]):
\* data[camel(key)] = data[key] for each key, assigned on data itself
convertKeyToCamelCase(data) ==
    [k \in (DOMAIN data) \cup {"projectUuid", "pipelineUuid"} |->
        IF k = "projectUuid" THEN Get(data, "project_uuid")
        ELSE IF k = "pipelineUuid" THEN Get(data, "pipeline_uuid")
        ELSE data[k]]

\* reads the camelCase fields only
getSessionValueCamelOnly(session) ==
    [projectUuid  |-> Get(session, "projectUuid"),
     pipelineUuid |-> Get(session, "pipelineUuid")]

getSessionValue(session) ==
    [projectUuid  |-> OrElse(Get(session, "projectUuid"), Get(session, "project_uuid")),
     pipelineUuid |-> OrElse(Get(session, "pipelineUuid"), Get(session, "pipeline_uuid"))]

\* compares the fields as they are spelled, without getSessionValue
isSessionSameSpelling(a, b) ==
    ~ \E key \in {"projectUuid", "pipelineUuid", "project_uuid", "pipeline_uuid"} :
          Get(a, key) # Get(b, key)

isSession(a, b) ==
    ~ \E key \in {"projectUuid", "pipelineUuid"} :
          getSessionValue(a)[key] # getSessionValue(b)[key]

isStoppable(status) == status \in {"RUNNING", "LAUNCHING"}

\* Array.prototype.find as an index: the first match, 0 when there is none
FindIndex(reg, probe) ==
    IF \E i \in 1..Len(reg) : isSession(probe, reg[i])
    THEN CHOOSE i \in 1..Len(reg) :
            /\ isSession(probe, reg[i])
            /\ \A j \in 1..(i - 1) : ~isSession(probe, reg[j])
    ELSE 0

\* ---- objects that enter the registry ------------------------------------
CamelId(p, q) == [projectUuid |-> p, pipelineUuid |-> q]
SnakeId(p, q) == [project_uuid |-> p, pipeline_uuid |-> q]
WithStatus(obj, st) == Spread(obj, [status |-> st])

\* inserts the new session with the status it came with
setSessionKeepsStatus(reg, newSessionData) ==
    LET found == \E i \in 1..Len(reg) : isSession(newSessionData, reg[i])
        newSessions ==
            [i \in 1..Len(reg) |->
                IF isSession(newSessionData, reg[i])
                THEN Spread(reg[i], newSessionData)
                ELSE reg[i]]
    IN  IF found THEN newSessions ELSE Append(newSessions, newSessionData)

\* ---- the updater of setSession, applied to the latest registry ----------
setSession(reg, newSessionData) ==
    LET found == \E i \in 1..Len(reg) : isSession(newSessionData, reg[i])
        newSessions ==
            [i \in 1..Len(reg) |->
                IF isSession(newSessionData, reg[i])
                THEN Spread(reg[i], newSessionData)
                ELSE reg[i]]
    IN  IF found
        THEN newSessions
        ELSE Append(newSessions, WithStatus(newSessionData, "LAUNCHING"))

\* ---- requests -------------------------------------------------------------
\* by = 0: issued by toggleSession; by = k > 0: by the k-th deleteAllSessions
Request(method, p, q, by) ==
    [method |-> method, projectUuid |-> p, pipelineUuid |-> q, by |-> by,
     state |-> "pending"]

Pending == {i \in 1..Len(requests) : requests[i].state = "pending"}

\* what the server may report as the status of a session it has launched
ResponseStatuses == {"RUNNING"}

\* ---- the embedded JupyterLab: values ------------------------------------
\* calls of show, hide, updateJupyterInstance and reloadFilesFromDisk in a run
MaxBridgeCalls == 5
\* calls of setNotebookKernel in a run
MaxKernelCalls == 3

\* base addresses of the Jupyter servers of two sessions; neither occurs in
\* the other's url nor in about:blank
Addresses == {"/jupyter-a", "/jupyter-b"}
Blank == "about:blank"
LabUrl(base) == base \o "/lab"

\* href.indexOf(base) !== -1, for the urls the iframe is ever sent to; the
\* empty string occurs in every string
Contains(url, base) == base = "" \/ url = LabUrl(base)

\* "#jp-main-content-panel".clientWidth > 500
MinWidth == 500

\* the shell node and its main content panel: found is false when the
\* querySelector finds no panel
Layouts ==
    { [found |-> TRUE,  panel |-> 800, shell |-> 800],
      [found |-> TRUE,  panel |-> 400, shell |-> 400],
      [found |-> TRUE,  panel |-> 600, shell |-> 800],
      [found |-> TRUE,  panel |-> 500, shell |-> 800],
      [found |-> TRUE,  panel |-> 400, shell |-> 800],
      [found |-> FALSE, panel |-> 0,   shell |-> 800] }

\* a widget of shell.widgets("main"): whether its node has the class
\* jp-NotebookPanel, model.dirty, whether contextForWidget finds its context
Widget(isNotebook, dirty, hasContext) ==
    [notebookPanel |-> isNotebook, dirty |-> dirty, ctx |-> hasContext]

ShellWidgets ==
    { <<>>,
      << Widget(TRUE, FALSE, TRUE) >>,
      << Widget(TRUE, TRUE, TRUE), Widget(FALSE, FALSE, TRUE),
         Widget(TRUE, FALSE, TRUE), Widget(TRUE, FALSE, FALSE) >> }

\* contentWindow._orchest_app: undefined until the application has started
NoLab == [app |-> FALSE]
Labs ==
    { [app |-> TRUE, onScreen |-> s, layout |-> l, widgets |-> w] :
        s \in BOOLEAN, l \in Layouts, w \in ShellWidgets }

\* notebooks and kernels of setNotebookKernel
Notebooks == {"a.ipynb", "b.ipynb"}
Kernels == {"orchest-kernel-1", "orchest-kernel-2"}
\* a widget or a session that has no kernel
NoKernel == "null"

\* `${notebook}-${kernel}`
PendingKey(notebook, kernel) == notebook \o "-" \o kernel

\* the application has just been opened: one entry in the session history, no
\* useHistoryListener has seen a navigation
NoListener ==
    /\ history = [entries |-> <<0>>, index |-> 1]
    /\ locationKeysRef = <<>>

\* new Jupyter(jupyterRef.current, setConfirm): the holder is rendered with
\* the class "hidden"; the iframe it appends shows the initial about:blank,
\* whose load event has not been handled yet
Constructed ==
    /\ hidden = TRUE
    /\ baseAddress = ""
    /\ reloadOnShow = FALSE
    /\ iframeHasLoaded = FALSE
    /\ showCheckInterval = 0
    /\ timers = {}
    /\ href = Blank
    /\ nav = Undef
    /\ docLoaded = FALSE
    /\ lab = NoLab
    /\ pendingKernelChanges = [k \in {} |-> TRUE]

\* no notebook is open, none has a session, nothing asked of the user
NoDocuments ==
    /\ widgetKernel = [n \in Notebooks |-> Undef]
    /\ sessionKernel = [n \in Notebooks |-> Undef]
    /\ lookups = <<>>
    /\ promptMessages = <<>>
    /\ attempts = {}
    /\ retryLoops = <<>>
    /\ dispatched = <<>>

\* initialState
SessionsInit ==
    /\ sessions = <<>>
    /\ killAll = FALSE
    /\ requests = <<>>
    /\ bulks = <<>>

\* initialState, and nothing called yet
Init ==
    /\ SessionsInit
    /\ calls = 0
    /\ op = [name |-> "init"]
    /\ Constructed
    /\ NoDocuments
    /\ NoListener

\* ---- toggleSession(payload), up to its await ----------------------------
toggleSession(p, q) ==
    /\ calls < MaxCalls
    /\ calls' = calls + 1
    /\ LET payload == CamelId(p, q)
           i       == FindIndex(sessions, payload)
           \* convertKeyToCamelCase assigns on the found object itself,
           \* which is the object held by the registry
           session == convertKeyToCamelCase(sessions[i])
           reg     == IF i > 0 THEN [sessions EXCEPT ![i] = session] ELSE sessions
           status  == IF i > 0 THEN Get(session, "status") ELSE Undef
       IN  /\ op' = [name |-> "toggleSession", projectUuid |-> p, pipelineUuid |-> q,
                     found |-> i, status |-> status]
           /\ IF status \in {"LAUNCHING", "STOPPING"}
              THEN /\ sessions' = reg
                   /\ UNCHANGED requests
              ELSE IF status = "RUNNING"
              THEN /\ sessions' = setSession(reg, WithStatus(session, "STOPPING"))
                   /\ requests' = Append(requests,
                          Request("DELETE", session.projectUuid, session.pipelineUuid, 0))
              ELSE /\ sessions' = setSession(reg, WithStatus(payload, "LAUNCHING"))
                   /\ requests' = Append(requests, Request("POST", p, q, 0))
    /\ UNCHANGED <<killAll, bulks, bridgeVars, kernelVars, retryLoops, dispatched, history, locationKeysRef>>

\* ---- the launch request settles -------------------------------------------
\* .then((sessionDetails) => setSession(sessionDetails)): the server answers
\* with the snake_case details of the session named in the request body
launchResolves(r, st) ==
    /\ r \in Pending
    /\ requests[r].method = "POST"
    /\ LET details == WithStatus(SnakeId(requests[r].projectUuid,
                                         requests[r].pipelineUuid), st)
       IN  /\ sessions' = setSession(sessions, details)
           /\ op' = [name |-> "launchResolves", request |-> r, status |-> st]
    /\ requests' = [requests EXCEPT ![r].state = "settled"]
    /\ UNCHANGED <<killAll, bulks, calls, bridgeVars, kernelVars, retryLoops, dispatched, history, locationKeysRef>>

\* the catch-callback also takes the temporary entry out of the registry
launchRejectsRollsBack(r, hasMessage) ==
    /\ r \in Pending
    /\ requests[r].method = "POST"
    /\ requests' = [requests EXCEPT ![r].state = "settled"]
    /\ op' = [name |-> "launchRejects", request |-> r, hasMessage |-> hasMessage,
              setAlert |-> hasMessage]
    /\ sessions' = SelectSeq(sessions, LAMBDA s :
                       ~isSession(s, CamelId(requests[r].projectUuid,
                                             requests[r].pipelineUuid)))
    /\ UNCHANGED <<killAll, bulks, calls, bridgeVars, kernelVars, retryLoops, dispatched, history, locationKeysRef>>

\* .catch((err) => { if (err?.message) setAlert(...) })
launchRejects(r, hasMessage) ==
    /\ r \in Pending
    /\ requests[r].method = "POST"
    /\ requests' = [requests EXCEPT ![r].state = "settled"]
    /\ op' = [name |-> "launchRejects", request |-> r, hasMessage |-> hasMessage,
              setAlert |-> hasMessage]
    /\ UNCHANGED <<sessions, killAll, bulks, calls, bridgeVars, kernelVars, retryLoops, dispatched, history, locationKeysRef>>

\* ---- deleteAllSessions(), up to its await -------------------------------
\* The updater that marks the sessions also fills sessionsToStop.  React runs
\* an updater inside dispatch only when it renders synchronously; inside a
\* batched event handler it runs at the next render, after the synchronous
\* part of deleteAllSessions has already mapped sessionsToStop.  Both happen.
deleteAllSessions(updaterRanInDispatch) ==
    /\ calls < MaxCalls
    /\ calls' = calls + 1
    /\ LET k == Len(bulks) + 1
           newSessions ==
               [i \in 1..Len(sessions) |->
                   Spread(sessions[i],
                          [status |-> IF isStoppable(Get(sessions[i], "status"))
                                      THEN "STOPPING"
                                      ELSE Get(sessions[i], "status")])]
           stoppable == SelectSeq(sessions, LAMBDA s : isStoppable(Get(s, "status")))
           sessionsToStop ==
               IF updaterRanInDispatch
               THEN [i \in 1..Len(stoppable) |->
                        Request("DELETE", Get(stoppable[i], "projectUuid"),
                                Get(stoppable[i], "pipelineUuid"), k)]
               ELSE <<>>
       IN  /\ requests' = requests \o sessionsToStop
           /\ op' = [name |-> "deleteAllSessions", sync |-> updaterRanInDispatch]
           /\ IF sessionsToStop = <<>>
              \* Promise.all([]) is already resolved: the then-callback runs
              \* before any other task
              THEN /\ sessions' = <<>>
                   /\ killAll' = FALSE
                   /\ bulks' = Append(bulks, [state |-> "cleared"])
              ELSE /\ sessions' = newSessions
                   /\ killAll' = TRUE
                   /\ bulks' = Append(bulks, [state |-> "waiting"])
    /\ UNCHANGED <<bridgeVars, kernelVars, retryLoops, dispatched, history, locationKeysRef>>

\* ---- a stop request settles -------------------------------------------------
\* every other request of the same deleteAllSessions call has settled; none
\* of them failed while the call is still waiting
OthersSettled(r) ==
    \A j \in 1..Len(requests) :
        (j # r /\ requests[j].by = requests[r].by) => requests[j].state = "settled"

\* the await of toggleSession also takes the stopped entry out of the registry
stopResolvesRemovesEntry(r) ==
    /\ r \in Pending
    /\ requests[r].method = "DELETE"
    /\ requests' = [requests EXCEPT ![r].state = "settled"]
    /\ LET k == requests[r].by
       IN  IF k > 0 /\ bulks[k].state = "waiting" /\ OthersSettled(r)
           THEN /\ sessions' = <<>>
                /\ killAll' = FALSE
                /\ bulks' = [bulks EXCEPT ![k].state = "cleared"]
           ELSE /\ sessions' = SelectSeq(sessions, LAMBDA s :
                                   ~isSession(s, CamelId(requests[r].projectUuid,
                                                         requests[r].pipelineUuid)))
                /\ UNCHANGED <<killAll, bulks>>
    /\ op' = [name |-> "stopResolves", request |-> r]
    /\ UNCHANGED <<calls, bridgeVars, kernelVars, retryLoops, dispatched, history, locationKeysRef>>

\* toggleSession: the await returns.  deleteAllSessions: Promise.all resolves
\* with the last of its requests and the then-callback clears the registry.
stopResolves(r) ==
    /\ r \in Pending
    /\ requests[r].method = "DELETE"
    /\ requests' = [requests EXCEPT ![r].state = "settled"]
    /\ LET k == requests[r].by
       IN  IF k > 0 /\ bulks[k].state = "waiting" /\ OthersSettled(r)
           THEN /\ sessions' = <<>>
                /\ killAll' = FALSE
                /\ bulks' = [bulks EXCEPT ![k].state = "cleared"]
           ELSE UNCHANGED <<sessions, killAll, bulks>>
    /\ op' = [name |-> "stopResolves", request |-> r]
    /\ UNCHANGED <<calls, bridgeVars, kernelVars, retryLoops, dispatched, history, locationKeysRef>>

\* toggleSession: catch, setAlert.  deleteAllSessions: Promise.all rejects
\* with the first failure and the catch-callback only logs.
stopRejects(r) ==
    /\ r \in Pending
    /\ requests[r].method = "DELETE"
    /\ requests' = [requests EXCEPT ![r].state = "settled"]
    /\ LET k == requests[r].by
       IN  /\ bulks' = IF k > 0 /\ bulks[k].state = "waiting"
                       THEN [bulks EXCEPT ![k].state = "failed"]
                       ELSE bulks
           /\ op' = [name |-> "stopRejects", request |-> r, setAlert |-> (k = 0)]
    /\ UNCHANGED <<sessions, killAll, calls, bridgeVars, kernelVars, retryLoops, dispatched, history, locationKeysRef>>

\* ---- dispatch({type: "SET_SESSIONS", payload}) from outside ---------------
\* The context hands out dispatch; the sessions poller replaces the registry
\* with the list it fetched.  Each session of the list is written in one of
\* the two conventions and no two of them have the same identity.
PayloadEntries ==
    { WithStatus(id, st) :
        id \in { CamelId(p, q) : p \in Projects, q \in Pipelines }
               \cup { SnakeId(p, q) : p \in Projects, q \in Pipelines },
        st \in Statuses }

Payloads ==
    { list \in UNION { [1..n -> PayloadEntries] :
                          n \in 0..Cardinality(Projects \X Pipelines) } :
        \A i, j \in 1..Len(list) : i # j => ~isSession(list[i], list[j]) }

SET_SESSIONS(payload) ==
    /\ calls < MaxCalls
    /\ calls' = calls + 1
    /\ sessions' = payload
    /\ op' = [name |-> "SET_SESSIONS"]
    /\ UNCHANGED <<killAll, requests, bulks, bridgeVars, kernelVars, retryLoops, dispatched, history, locationKeysRef>>

Next ==
    \/ \E p \in Projects, q \in Pipelines : toggleSession(p, q)
    \/ \E r \in 1..Len(requests), st \in ResponseStatuses : launchResolves(r, st)
    \/ \E r \in 1..Len(requests), hasMessage \in BOOLEAN : launchRejects(r, hasMessage)
    \/ \E sync \in BOOLEAN : deleteAllSessions(sync)
    \/ \E r \in 1..Len(requests) : stopResolves(r)
    \/ \E r \in 1..Len(requests) : stopRejects(r)
    \/ \E payload \in Payloads : SET_SESSIONS(payload)

Spec == Init /\ [][Next]_vars

\* ---- vocabulary of the properties ------------------------------------------
Identities == { CamelId(p, q) : p \in Projects, q \in Pipelines }

\* getSession(session): state.sessions.find(...), as an index (0: undefined)
getSession(probe) == FindIndex(sessions, probe)

\* the requests of toggleSession for one session that have not settled
InFlightByToggle(id) ==
    { r \in Pending : /\ requests[r].by = 0
                      /\ requests[r].projectUuid = id.projectUuid
                      /\ requests[r].pipelineUuid = id.pipelineUuid }

\* the step just taken is a call of toggleSession / what it was called with
IsToggleStep == calls' = calls + 1 /\ op'.name = "toggleSession"
ToggledId == CamelId(op'.projectUuid, op'.pipelineUuid)

\* ---- C1 --------------------------------------------------------------------
\* C1: in every reachable state of the registry no two entries have the same
\* (projectId, pipelineId) identity, the identity being read through either
\* field-naming convention (isSession).
UniqueIdentity ==
    \A i, j \in 1..Len(sessions) :
        i # j => ~isSession(sessions[i], sessions[j])

\* ---- C2 --------------------------------------------------------------------
\* C2: at most one launch or stop request issued by toggle is in flight for a
\* session at any time: a second toggle made before the first one's request
\* resolves issues no further request.
OneRequestInFlightPerSession ==
    \A id \in Identities : Cardinality(InFlightByToggle(id)) <= 1

\* ---- C3 --------------------------------------------------------------------
\* C3: a toggle on a session whose entry has status LAUNCHING or STOPPING is a
\* no-op: it issues no request and leaves the whole registry as it was, the
\* identity fields and the status of that entry included.
ToggleWhileWorkingIsNoOp ==
    [][ (/\ IsToggleStep
         /\ getSession(ToggledId) > 0
         /\ Get(sessions[getSession(ToggledId)], "status") \in {"LAUNCHING", "STOPPING"})
        => (sessions' = sessions /\ requests' = requests) ]_vars

\* ---- C4 --------------------------------------------------------------------
\* the request that settled in the step just taken, when it belongs to a
\* deleteAllSessions call all of whose requests have now settled
LastOfBulkSettled ==
    /\ op.name \in {"stopResolves", "stopRejects"}
    /\ requests[op.request].by > 0
    /\ \A r \in 1..Len(requests) :
          requests[r].by = requests[op.request].by => requests[r].state = "settled"

\* C4: once all the stop requests of a deleteAllSessions call have settled,
\* the registry is empty and the killing-all flag is false, whether the
\* requests succeeded or failed.
BulkStopAlwaysClears ==
    LastOfBulkSettled => (sessions = <<>> /\ killAll = FALSE)

\* ---- C5 --------------------------------------------------------------------
IsDeleteAllStep == calls' = calls + 1 /\ op'.name = "deleteAllSessions"

\* the entries with status RUNNING or LAUNCHING, in registry order
StoppableEntries(reg) == SelectSeq(reg, LAMBDA s : isStoppable(Get(s, "status")))

\* C5: deleteAllSessions issues exactly one stop request per entry that has
\* status RUNNING or LAUNCHING, addressed to that entry's session, and none
\* for entries in any other status.
BulkStopIssuesOnePerStoppable ==
    [][ IsDeleteAllStep =>
          LET todo == StoppableEntries(sessions)
          IN  /\ Len(requests') = Len(requests) + Len(todo)
              /\ \A i \in 1..Len(todo) :
                    LET req == requests'[Len(requests) + i]
                    IN  /\ req.method = "DELETE"
                        /\ CamelId(req.projectUuid, req.pipelineUuid)
                              = getSessionValue(todo[i]) ]_vars

\* ---- C6 --------------------------------------------------------------------
\* a stop request of a deleteAllSessions call is in flight for the session
BulkStopInFlight(id) ==
    \E r \in Pending : /\ requests[r].by > 0
                        /\ requests[r].projectUuid = id.projectUuid
                        /\ requests[r].pipelineUuid = id.pipelineUuid

\* C6: deleteAllSessions marks every RUNNING or LAUNCHING entry STOPPING before
\* it issues a stop request, so a toggle on one of those sessions made while
\* the bulk stop is in flight observes STOPPING and issues no request.
BulkStopShieldsFromToggle ==
    [][ /\ (IsDeleteAllStep /\ Len(requests') > Len(requests))
            => \A i \in 1..Len(sessions') :
                  ~isStoppable(Get(sessions'[i], "status"))
        /\ (IsToggleStep /\ BulkStopInFlight(ToggledId))
            => (op'.status = "STOPPING" /\ requests' = requests) ]_vars

\* ---- C7 --------------------------------------------------------------------
IsLaunchResolvesStep == calls' = calls /\ op'.name = "launchResolves"

\* the session named in the body of the launch request that just resolved
LaunchedId ==
    CamelId(requests[op'.request].projectUuid, requests[op'.request].pipelineUuid)

\* C7: from the empty registry, toggle for (p, q) leaves exactly one entry for
\* (p, q), with status LAUNCHING, and issues one launch request; when the
\* server then answers with the snake_case details of (p, q) and status
\* RUNNING, they are merged into that entry, which becomes RUNNING, and no
\* second entry appears.
LaunchScenario ==
    [][ /\ (IsToggleStep /\ sessions = <<>>)
            => /\ sessions' = << WithStatus(ToggledId, "LAUNCHING") >>
               /\ requests' = Append(requests,
                      Request("POST", op'.projectUuid, op'.pipelineUuid, 0))
        /\ (/\ IsLaunchResolvesStep
            /\ op'.status = "RUNNING"
            /\ sessions = << WithStatus(LaunchedId, "LAUNCHING") >>)
            => sessions' =
                 << [projectUuid   |-> LaunchedId.projectUuid,
                     pipelineUuid  |-> LaunchedId.pipelineUuid,
                     project_uuid  |-> LaunchedId.projectUuid,
                     pipeline_uuid |-> LaunchedId.pipelineUuid,
                     status        |-> "RUNNING"] >> ]_vars

\* toggle, then the answer, and nothing else: one RUNNING entry for (p1, q1)
LaunchScenarioDone ==
    /\ op.name = "launchResolves"
    /\ calls = 1
    /\ Len(requests) = 1
    /\ sessions = << [projectUuid |-> "p1", pipelineUuid |-> "q1",
                      project_uuid |-> "p1", pipeline_uuid |-> "q1",
                      status |-> "RUNNING"] >>

\* ---- C8 --------------------------------------------------------------------
\* C8: a toggle on a session whose entry has status RUNNING sets that entry's
\* status to STOPPING and issues exactly one DELETE request, addressed to the
\* identity of that entry, under whichever convention the entry is stored.
ToggleRunningStopsIt ==
    [][ (/\ IsToggleStep
         /\ getSession(ToggledId) > 0
         /\ Get(sessions[getSession(ToggledId)], "status") = "RUNNING")
        => LET i == getSession(ToggledId)
           IN  /\ requests' = Append(requests,
                      Request("DELETE", ToggledId.projectUuid, ToggledId.pipelineUuid, 0))
               /\ Len(sessions') = Len(sessions)
               /\ Get(sessions'[i], "status") = "STOPPING"
               /\ getSessionValue(sessions'[i]) = ToggledId ]_vars

\* ---- C9 --------------------------------------------------------------------
\* the identity an entry is stored under, read without the model's helpers
StoredUnder(entry, id) ==
    /\ \/ ("projectUuid" \in DOMAIN entry /\ entry.projectUuid = id.projectUuid)
       \/ (/\ ("projectUuid" \notin DOMAIN entry \/ entry.projectUuid = Undef)
           /\ "project_uuid" \in DOMAIN entry
           /\ entry.project_uuid = id.projectUuid)
    /\ \/ ("pipelineUuid" \in DOMAIN entry /\ entry.pipelineUuid = id.pipelineUuid)
       \/ (/\ ("pipelineUuid" \notin DOMAIN entry \/ entry.pipelineUuid = Undef)
           /\ "pipeline_uuid" \in DOMAIN entry
           /\ entry.pipeline_uuid = id.pipelineUuid)

AsSnake(id) == SnakeId(id.projectUuid, id.pipelineUuid)

\* C9: getSession returns the same entry for a camelCase and for a snake_case
\* query, the first entry stored with that identity under either convention,
\* and nothing when no entry has that identity.
LookupIgnoresConvention ==
    \A id \in Identities :
        LET byCamel == getSession(id)
            bySnake == getSession(AsSnake(id))
            stored  == { i \in 1..Len(sessions) : StoredUnder(sessions[i], id) }
        IN  /\ byCamel = bySnake
            /\ stored = {} => byCamel = 0
            /\ stored # {} => (byCamel \in stored /\ \A j \in stored : byCamel <= j)

\* a snake_case entry found by a camelCase query and the other way round
LookupAcrossConventions ==
    \E i, j \in 1..Len(sessions) :
        /\ DOMAIN sessions[i] = {"project_uuid", "pipeline_uuid", "status"}
        /\ getSession(CamelId(sessions[i].project_uuid, sessions[i].pipeline_uuid)) = i
        /\ DOMAIN sessions[j] = {"projectUuid", "pipelineUuid", "status"}
        /\ sessions[j].projectUuid # Undef
        /\ getSession(SnakeId(sessions[j].projectUuid, sessions[j].pipelineUuid)) = j

\* ---- C10 -------------------------------------------------------------------
\* what the contract of setSession allows as the registry after setSession(data)
\* on the registry reg: the entries with the identity of data take its fields
\* over theirs, the others are untouched, and when there is none, one entry is
\* added at the end, with the fields of data but status LAUNCHING
MergedOrAppended(reg, data, after) ==
    LET same == { i \in 1..Len(reg) : isSession(data, reg[i]) }
    IN  /\ \A i \in 1..Len(reg) :
              /\ i <= Len(after)
              /\ i \notin same => after[i] = reg[i]
              /\ i \in same =>
                    /\ DOMAIN after[i] = DOMAIN reg[i] \cup DOMAIN data
                    /\ \A k \in DOMAIN after[i] :
                          after[i][k] = IF k \in DOMAIN data THEN data[k] ELSE reg[i][k]
        /\ same # {} => Len(after) = Len(reg)
        /\ same = {} =>
              /\ Len(after) = Len(reg) + 1
              /\ after[Len(after)].status = "LAUNCHING"
              /\ \A k \in DOMAIN data \ {"status"} : after[Len(after)][k] = data[k]
              /\ DOMAIN after[Len(after)] = DOMAIN data \cup {"status"}

\* C10: setSession(partial), applied to the latest registry, merges the
\* partial into the entry with the same identity, its fields overriding the
\* entry's, or else appends exactly one entry with status LAUNCHING whatever
\* status the partial carried; every other entry and the order are unchanged.
SetSessionMergesOrAppends ==
    [][ /\ IsLaunchResolvesStep
            => MergedOrAppended(sessions,
                                WithStatus(AsSnake(LaunchedId), op'.status),
                                sessions')
        /\ (IsToggleStep /\ getSession(ToggledId) = 0)
            => MergedOrAppended(sessions, WithStatus(ToggledId, "LAUNCHING"), sessions')
        /\ (IsToggleStep /\ op'.status = "RUNNING")
            => LET i   == getSession(ToggledId)
                   reg == [sessions EXCEPT ![i] = convertKeyToCamelCase(@)]
               IN  MergedOrAppended(reg, WithStatus(reg[i], "STOPPING"), sessions') ]_vars

\* the answer to a launch found no entry: it was appended as LAUNCHING although
\* it said RUNNING, after an entry of another session that was left alone
AnswerAppendedAsLaunching ==
    /\ op.name = "launchResolves"
    /\ op.status = "RUNNING"
    /\ Len(sessions) = 2
    /\ DOMAIN sessions[2] = {"project_uuid", "pipeline_uuid", "status"}
    /\ sessions[2].status = "LAUNCHING"
    /\ ~isSession(sessions[1], sessions[2])

\* ---- C11 -------------------------------------------------------------------
\* the step just taken is the failure of a request that toggleSession issued
IsToggleRequestFailsStep ==
    /\ calls' = calls
    /\ op'.name \in {"launchRejects", "stopRejects"}
    /\ requests[op'.request].by = 0

\* C11: when a launch request fails, or a stop request issued by toggleSession
\* fails, the registry is left exactly as it was: nothing is rolled back, and
\* an entry that was LAUNCHING or STOPPING for that request keeps that status.
FailureLeavesRegistry ==
    [][ IsToggleRequestFailsStep =>
          /\ sessions' = sessions
          /\ \A i \in 1..Len(sessions) :
                Get(sessions[i], "status") \in {"LAUNCHING", "STOPPING"}
                    => Get(sessions'[i], "status") = Get(sessions[i], "status") ]_vars

\* the launch of (p1, q1) has failed and its entry is still there, LAUNCHING
FailedLaunchStillLaunching ==
    /\ op.name = "launchRejects"
    /\ requests[op.request].projectUuid = "p1"
    /\ sessions = << WithStatus(CamelId("p1", "q1"), "LAUNCHING") >>

\* ---- C12 -------------------------------------------------------------------
\* C12: every failure of a launch request, and every failure of a stop request
\* issued by toggleSession, ends with setAlert being called, whatever value the
\* request was rejected with.
EveryToggleFailureAlerts ==
    (/\ op.name \in {"launchRejects", "stopRejects"}
     /\ requests[op.request].by = 0)
        => op.setAlert

\* ---- C13 -------------------------------------------------------------------
\* the step just taken is the response to a request of toggleSession
IsToggleResponseStep ==
    /\ calls' = calls
    /\ op'.name \in {"launchResolves", "launchRejects", "stopResolves", "stopRejects"}
    /\ requests[op'.request].by = 0

\* the session that request was made for
RespondedId ==
    CamelId(requests[op'.request].projectUuid, requests[op'.request].pipelineUuid)

\* the step from reg to after touched no entry of another session than id:
\* those entries are where they were and as they were, and what was added
\* belongs to id
OthersUntouched(id, reg, after) ==
    /\ Len(after) >= Len(reg)
    /\ \A i \in 1..Len(reg) : ~isSession(reg[i], id) => after[i] = reg[i]
    /\ \A i \in (Len(reg) + 1)..Len(after) : isSession(after[i], id)

\* C13: in any interleaving of toggles and their responses for sessions of
\* different identities, a toggle or a response for one session changes no
\* entry that does not have that session's identity, so each entry goes
\* through the states its own operations alone give it.
SessionsAreIndependent ==
    [][ /\ IsToggleStep => OthersUntouched(ToggledId, sessions, sessions')
        /\ IsToggleResponseStep => OthersUntouched(RespondedId, sessions, sessions') ]_vars

\* ===========================================================================
\* The embedded JupyterLab (jupyter/Jupyter.tsx)
\*
\* The iframe navigates asynchronously: location.replace and location.reload
\* start a navigation, location.href and the window's objects are those of the
\* old document until the navigation commits, and a navigation started later
\* replaces one that has not committed.  The load event of a document fires
\* once, some time after it has committed, and _loadIframe handles it.  The
\* application of a /lab document starts some time after the commit.
\* ===========================================================================

\* takes the application for loaded as soon as it exists
isJupyterLoadedAppOnly(app) == app.app

\* isJupyterLoaded(): the application exists and a widget is on screen; a
\* missing application throws, which is caught
isJupyterLoaded(app) == app.app /\ app.onScreen

\* accepts a panel that is exactly as wide as the threshold
isJupyterShellRenderedCorrectlyAtLeast(app) ==
    /\ app.app
    /\ app.layout.found
    /\ \/ app.layout.panel = app.layout.shell
       \/ app.layout.panel >= MinWidth

\* isJupyterShellRenderedCorrectly(): a missing application or panel throws,
\* which is caught
isJupyterShellRenderedCorrectly(app) ==
    /\ app.app
    /\ app.layout.found
    /\ \/ app.layout.panel = app.layout.shell
       \/ app.layout.panel > MinWidth

\* reverts the dirty panels as well
RevertedByDirtyToo(app) ==
    IF app.app
    THEN SelectSeq(app.widgets, LAMBDA w : w.notebookPanel /\ w.ctx)
    ELSE <<>>

\* _reloadFilesFromDisk(): the widgets it calls ctx.revert() on, in order
RevertedBy(app) ==
    IF app.app
    THEN SelectSeq(app.widgets, LAMBDA w : w.notebookPanel /\ ~w.dirty /\ w.ctx)
    ELSE <<>>

\* starts its poll without clearing the one of an earlier show()
showKeepsOldInterval ==
    /\ calls < MaxBridgeCalls
    /\ calls' = calls + 1
    /\ LET mustNavigate == ~Contains(href, baseAddress)
           glitch == isJupyterLoaded(lab) /\ ~isJupyterShellRenderedCorrectly(lab)
       IN  /\ reloadOnShow' = FALSE
           /\ iframeHasLoaded' = IF mustNavigate \/ glitch THEN FALSE ELSE iframeHasLoaded
           /\ nav' \in IF mustNavigate /\ glitch THEN {LabUrl(baseAddress), href}
                       ELSE IF mustNavigate THEN {LabUrl(baseAddress)}
                       ELSE IF glitch THEN {href}
                       ELSE {nav}
           /\ op' = [name |-> "show",
                     reverted |-> IF reloadOnShow THEN RevertedBy(lab) ELSE <<>>,
                     navigated |-> mustNavigate, reloaded |-> glitch,
                     cleared |-> showCheckInterval \in timers]
    /\ timers' = timers \cup {calls + 1}
    /\ showCheckInterval' = calls + 1
    /\ UNCHANGED <<hidden, baseAddress, href, docLoaded, lab, sessionVars, kernelVars, retryLoops, dispatched, history, locationKeysRef>>

\* ---- show() -----------------------------------------------------------------
\* When show() both replaces the location and reloads it, which of the two
\* navigations the iframe ends up making is left to the browser.
show ==
    /\ calls < MaxBridgeCalls
    /\ calls' = calls + 1
    /\ LET mustNavigate == ~Contains(href, baseAddress)
           glitch == isJupyterLoaded(lab) /\ ~isJupyterShellRenderedCorrectly(lab)
       IN  /\ reloadOnShow' = FALSE
           /\ iframeHasLoaded' = IF mustNavigate \/ glitch THEN FALSE ELSE iframeHasLoaded
           /\ nav' \in IF mustNavigate /\ glitch THEN {LabUrl(baseAddress), href}
                       ELSE IF mustNavigate THEN {LabUrl(baseAddress)}
                       ELSE IF glitch THEN {href}
                       ELSE {nav}
           /\ op' = [name |-> "show",
                     reverted |-> IF reloadOnShow THEN RevertedBy(lab) ELSE <<>>,
                     navigated |-> mustNavigate, reloaded |-> glitch,
                     cleared |-> showCheckInterval \in timers]
    \* clearInterval(this.showCheckInterval); this.showCheckInterval = setInterval(...)
    /\ timers' = (timers \ {showCheckInterval}) \cup {calls + 1}
    /\ showCheckInterval' = calls + 1
    /\ UNCHANGED <<hidden, baseAddress, href, docLoaded, lab, sessionVars, kernelVars, retryLoops, dispatched, history, locationKeysRef>>

\* unhides and goes on polling
pollTickKeepsPolling(t) ==
    /\ t \in timers
    /\ hidden' = IF iframeHasLoaded THEN FALSE ELSE hidden
    /\ op' = [name |-> "pollTick", timer |-> t, loaded |-> iframeHasLoaded]
    /\ UNCHANGED <<timers, baseAddress, reloadOnShow, iframeHasLoaded, showCheckInterval,
                   href, nav, docLoaded, lab, calls, sessionVars, kernelVars, retryLoops, dispatched, history, locationKeysRef>>

\* ---- the callback of the interval that show() set ---------------------------
pollTick(t) ==
    /\ t \in timers
    /\ IF iframeHasLoaded
       THEN /\ hidden' = FALSE
            /\ timers' = timers \ {showCheckInterval}
       ELSE UNCHANGED <<hidden, timers>>
    /\ op' = [name |-> "pollTick", timer |-> t, loaded |-> iframeHasLoaded]
    /\ UNCHANGED <<baseAddress, reloadOnShow, iframeHasLoaded, showCheckInterval,
                   href, nav, docLoaded, lab, calls, sessionVars, kernelVars, retryLoops, dispatched, history, locationKeysRef>>

\* hides and leaves the interval running
hideKeepsPolling ==
    /\ calls < MaxBridgeCalls
    /\ calls' = calls + 1
    /\ hidden' = TRUE
    /\ op' = [name |-> "hide"]
    /\ UNCHANGED <<timers, baseAddress, reloadOnShow, iframeHasLoaded, showCheckInterval,
                   href, nav, docLoaded, lab, sessionVars, kernelVars, retryLoops, dispatched, history, locationKeysRef>>

\* ---- hide() -----------------------------------------------------------------
hide ==
    /\ calls < MaxBridgeCalls
    /\ calls' = calls + 1
    /\ hidden' = TRUE
    /\ timers' = timers \ {showCheckInterval}
    /\ op' = [name |-> "hide"]
    /\ UNCHANGED <<baseAddress, reloadOnShow, iframeHasLoaded, showCheckInterval,
                   href, nav, docLoaded, lab, sessionVars, kernelVars, retryLoops, dispatched, history, locationKeysRef>>

\* ---- updateJupyterInstance(baseAddress) -------------------------------------
\* unload(): _setJupyterAddress("about:blank")
updateJupyterInstance(address) ==
    /\ calls < MaxBridgeCalls
    /\ calls' = calls + 1
    /\ IF baseAddress # address
       THEN /\ iframeHasLoaded' = FALSE
            /\ nav' = Blank
       ELSE UNCHANGED <<iframeHasLoaded, nav>>
    /\ baseAddress' = address
    /\ op' = [name |-> "updateJupyterInstance", baseAddress |-> address,
              unloaded |-> (baseAddress # address)]
    /\ UNCHANGED <<hidden, reloadOnShow, showCheckInterval, timers, href, docLoaded, lab,
                   sessionVars, kernelVars, retryLoops, dispatched, history, locationKeysRef>>

\* ---- reloadFilesFromDisk() --------------------------------------------------
reloadFilesFromDisk ==
    /\ calls < MaxBridgeCalls
    /\ calls' = calls + 1
    /\ reloadOnShow' = TRUE
    /\ op' = [name |-> "reloadFilesFromDisk", reverted |-> <<>>]
    /\ UNCHANGED <<hidden, baseAddress, iframeHasLoaded, showCheckInterval, timers,
                   href, nav, docLoaded, lab, sessionVars, kernelVars, retryLoops, dispatched, history, locationKeysRef>>

\* ---- the iframe -------------------------------------------------------------
\* the pending navigation commits: a new document and a new window
navigationCommits ==
    /\ nav # Undef
    /\ href' = nav
    /\ nav' = Undef
    /\ docLoaded' = FALSE
    /\ lab' = NoLab
    /\ op' = [name |-> "navigationCommits"]
    /\ UNCHANGED <<hidden, baseAddress, reloadOnShow, iframeHasLoaded, showCheckInterval,
                   timers, calls, sessionVars, kernelVars, retryLoops, dispatched, history, locationKeysRef>>

\* iframe.onload = _loadIframe: this.iframeHasLoaded = true
documentLoads ==
    /\ ~docLoaded
    /\ docLoaded' = TRUE
    /\ iframeHasLoaded' = TRUE
    /\ op' = [name |-> "documentLoads"]
    /\ UNCHANGED <<hidden, baseAddress, reloadOnShow, showCheckInterval, timers,
                   href, nav, lab, calls, sessionVars, kernelVars, retryLoops, dispatched, history, locationKeysRef>>

\* JupyterLab sets window._orchest_app and window._orchest_docmanager
appInitializes(app) ==
    /\ href # Blank
    /\ ~lab.app
    /\ lab' = app
    /\ op' = [name |-> "appInitializes"]
    /\ UNCHANGED <<hidden, baseAddress, reloadOnShow, iframeHasLoaded, showCheckInterval,
                   timers, href, nav, docLoaded, calls, sessionVars, kernelVars, retryLoops, dispatched, history, locationKeysRef>>

\* ---- fixJupyterRenderingGlitch() --------------------------------------------
fixJupyterRenderingGlitch ==
    /\ calls < MaxBridgeCalls
    /\ calls' = calls + 1
    /\ LET glitch == isJupyterLoaded(lab) /\ ~isJupyterShellRenderedCorrectly(lab)
       IN  /\ IF glitch
              THEN /\ iframeHasLoaded' = FALSE
                   /\ nav' = href
              ELSE UNCHANGED <<iframeHasLoaded, nav>>
           /\ op' = [name |-> "fixJupyterRenderingGlitch", reloaded |-> glitch]
    /\ UNCHANGED <<hidden, baseAddress, reloadOnShow, showCheckInterval, timers, href,
                   docLoaded, lab, sessionVars, kernelVars, retryLoops, dispatched, history, locationKeysRef>>

BridgeNext ==
    \/ show
    \/ fixJupyterRenderingGlitch
    \/ hide
    \/ \E address \in Addresses : updateJupyterInstance(address)
    \/ reloadFilesFromDisk
    \/ \E t \in timers : pollTick(t)
    \/ navigationCommits
    \/ documentLoads
    \/ \E app \in Labs : appInitializes(app)

BridgeSpec == Init /\ [][BridgeNext]_vars

\* ---- vocabulary of the properties of the bridge -----------------------------
IsShowStep == calls' = calls + 1 /\ op'.name = "show"
IsHideStep == calls' = calls + 1 /\ op'.name = "hide"
IsUpdateInstanceStep == calls' = calls + 1 /\ op'.name = "updateJupyterInstance"
IsReloadFilesStep == calls' = calls + 1 /\ op'.name = "reloadFilesFromDisk"
IsPollTickStep == calls' = calls /\ op'.name = "pollTick"

\* ---- C14 -------------------------------------------------------------------
\* C14: show() itself does not unhide; the surface goes from hidden to visible
\* only in a poll callback that finds the readiness flag true, a poll callback
\* that finds it false changes nothing, and the callback that finds it true
\* makes the surface visible and leaves no interval set, so that no further
\* callback runs.
ShowPollUnhidesWhenReady ==
    [][ /\ IsShowStep => (hidden' = hidden /\ showCheckInterval' \in timers')
        /\ (hidden /\ ~hidden') => (IsPollTickStep /\ iframeHasLoaded)
        /\ (IsPollTickStep /\ ~iframeHasLoaded) => (hidden' = hidden /\ timers' = timers)
        /\ (IsPollTickStep /\ iframeHasLoaded) => (~hidden' /\ timers' = {}) ]_vars

\* the poll of a show() found the flag set by the load of the lab document:
\* the surface is visible and nothing polls any more
PollStoppedVisible ==
    /\ op.name = "pollTick"
    /\ op.loaded
    /\ ~hidden
    /\ timers = {}
    /\ baseAddress \in Addresses
    /\ href = LabUrl(baseAddress)

\* ---- C15 -------------------------------------------------------------------
\* C15: hide() leaves the surface hidden and no interval set; and from a state
\* that is hidden with no interval set, every step that is not a call of
\* show(), the load event included, leaves it hidden with no interval set.
HideCancelsShowPoll ==
    [][ /\ IsHideStep => (hidden' /\ timers' = {})
        /\ (hidden /\ timers = {} /\ ~IsShowStep) => (hidden' /\ timers' = {}) ]_vars

\* show(), hide(), and then the document loaded: the flag is true, the surface
\* is still hidden and nothing polls
LoadedAfterHide ==
    /\ op.name = "documentLoads"
    /\ iframeHasLoaded
    /\ hidden
    /\ timers = {}
    /\ showCheckInterval > 0

\* ---- C16 -------------------------------------------------------------------
\* an address is recorded and the iframe has been sent to the blank document
\* since: it is on its way there or has arrived
Unloaded ==
    /\ baseAddress \in Addresses
    /\ \/ nav = Blank
       \/ (nav = Undef /\ href = Blank)

\* C16: updateJupyterInstance with an address other than the recorded one
\* starts a navigation to about:blank, resets the readiness flag and records
\* the address; the show() that follows starts the navigation to
\* <address>/lab; updateJupyterInstance with the recorded address navigates
\* nowhere and leaves the flag.
UpdateInstanceUnloads ==
    [][ /\ (IsUpdateInstanceStep /\ op'.baseAddress # baseAddress)
            => (nav' = Blank /\ ~iframeHasLoaded' /\ baseAddress' = op'.baseAddress)
        /\ (IsUpdateInstanceStep /\ op'.baseAddress = baseAddress)
            => (nav' = nav /\ href' = href /\ iframeHasLoaded' = iframeHasLoaded
                /\ baseAddress' = baseAddress)
        /\ (IsShowStep /\ Unloaded) => nav' = LabUrl(baseAddress) ]_vars

\* ---- C17 -------------------------------------------------------------------
\* C17: reloadFilesFromDisk() sets the reload-on-show flag and reverts nothing
\* when the surface is hidden; when the surface is visible it leaves the flag
\* and reverts, within the call, every open notebook panel that is not dirty.
ReloadDefersOnlyWhenHidden ==
    [][ IsReloadFilesStep =>
          IF hidden
          THEN reloadOnShow' /\ op'.reverted = <<>>
          ELSE reloadOnShow' = reloadOnShow /\ op'.reverted = RevertedBy(lab) ]_vars

\* ===========================================================================
\* setNotebookKernel and the confirmations it asks for
\*
\* The dialog that shows store.promptMessages is not part of the bridge: the
\* user answers the oldest message, the dialog calls its onConfirm or its
\* onCancel and takes it off the queue with deletePromptMessage.
\* ===========================================================================

\* what a notebook can be bound to: no widget or no session at all (Undef),
\* one without a kernel, or one with a kernel
Bindings == {Undef, NoKernel} \cup Kernels

\* JupyterLab is up at the first address and shown; the application may not
\* have started yet
LabIsUp ==
    /\ hidden = FALSE
    /\ baseAddress = "/jupyter-a"
    /\ reloadOnShow = FALSE
    /\ iframeHasLoaded = TRUE
    /\ showCheckInterval = 2
    /\ timers = {}
    /\ href = LabUrl("/jupyter-a")
    /\ nav = Undef
    /\ docLoaded = TRUE
    /\ lab \in {NoLab,
                [app |-> TRUE, onScreen |-> TRUE,
                 layout |-> [found |-> TRUE, panel |-> 800, shell |-> 800],
                 widgets |-> <<>>]}

\* the notebooks of the project, open or not, with or without a session; the
\* session of an open notebook is the one its widget holds
KernelInit ==
    /\ SessionsInit
    /\ calls = 0
    /\ op = [name |-> "init"]
    /\ LabIsUp
    /\ pendingKernelChanges = [k \in {} |-> TRUE]
    /\ widgetKernel \in [Notebooks -> Bindings]
    /\ sessionKernel \in [Notebooks -> Bindings]
    /\ \A n \in Notebooks :
          widgetKernel[n] # Undef =>
              sessionKernel[n] = IF widgetKernel[n] = NoKernel THEN Undef
                                 ELSE widgetKernel[n]
    /\ lookups = <<>>
    /\ promptMessages = <<>>
    /\ attempts = {}
    /\ retryLoops = <<>>
    /\ dispatched = <<>>
    /\ NoListener

\* never reports a pending change
isKernelChangePendingNever(notebook, kernel) == FALSE

\* isKernelChangePending(notebook, kernel)
isKernelChangePending(notebook, kernel) ==
    /\ PendingKey(notebook, kernel) \in DOMAIN pendingKernelChanges
    /\ pendingKernelChanges[PendingKey(notebook, kernel)] = TRUE

\* setKernelChangePending(notebook, kernel, value): the map afterwards
setKernelChangePending(notebook, kernel, value) ==
    Spread(pendingKernelChanges, [k \in {PendingKey(notebook, kernel)} |-> value])

\* takes any kernel for another one
hasOtherKernelOrSame(bound, kernel) == bound \notin {Undef, NoKernel}

\* session && session.kernel && session.kernel.name !== kernel
hasOtherKernel(bound, kernel) == bound \notin {Undef, NoKernel} /\ bound # kernel

\* the message setConfirm("Warning", warningMessage, callback) puts on the
\* queue; onConfirm names what the callback awaits
Confirm(notebook, kernel, request) ==
    [type |-> "confirm", notebook |-> notebook, kernel |-> kernel, onConfirm |-> request]

RemoveAt(seq, i) == SubSeq(seq, 1, i - 1) \o SubSeq(seq, i + 1, Len(seq))

\* ---- setNotebookKernel(notebook, kernel), up to findByPath ------------------
setNotebookKernel(notebook, kernel) ==
    /\ calls < MaxKernelCalls
    /\ calls' = calls + 1
    /\ LET isOpen == widgetKernel[notebook] # Undef
           asks   == /\ lab.app
                     /\ isOpen
                     /\ hasOtherKernel(widgetKernel[notebook], kernel)
                     /\ ~isKernelChangePending(notebook, kernel)
       IN  /\ IF asks
              THEN /\ pendingKernelChanges' = setKernelChangePending(notebook, kernel, TRUE)
                   /\ promptMessages' =
                          Append(promptMessages, Confirm(notebook, kernel, "changeKernel"))
              ELSE UNCHANGED <<pendingKernelChanges, promptMessages>>
           /\ lookups' = IF lab.app /\ ~isOpen
                         THEN Append(lookups, [notebook |-> notebook, kernel |-> kernel])
                         ELSE lookups
           /\ op' = [name |-> "setNotebookKernel", notebook |-> notebook,
                     kernel |-> kernel, asked |-> asks]
    /\ UNCHANGED <<widgetKernel, sessionKernel, attempts, sessionVars, bridgeVars, retryLoops, dispatched, history, locationKeysRef>>

\* ---- findByPath(notebook) settles -------------------------------------------
findByPathResolves(l) ==
    /\ l \in 1..Len(lookups)
    /\ LET notebook == lookups[l].notebook
           kernel   == lookups[l].kernel
           asks     == /\ hasOtherKernel(sessionKernel[notebook], kernel)
                       /\ ~isKernelChangePending(notebook, kernel)
       IN  /\ IF asks
              THEN /\ pendingKernelChanges' = setKernelChangePending(notebook, kernel, TRUE)
                   /\ promptMessages' =
                          Append(promptMessages, Confirm(notebook, kernel, "shutdown"))
              ELSE UNCHANGED <<pendingKernelChanges, promptMessages>>
           /\ op' = [name |-> "findByPathResolves", notebook |-> notebook,
                     kernel |-> kernel, asked |-> asks]
    /\ lookups' = RemoveAt(lookups, l)
    /\ UNCHANGED <<widgetKernel, sessionKernel, attempts, calls, sessionVars, bridgeVars, retryLoops, dispatched, history, locationKeysRef>>

\* .catch((error) => { console.error(error) })
findByPathRejects(l) ==
    /\ l \in 1..Len(lookups)
    /\ lookups' = RemoveAt(lookups, l)
    /\ op' = [name |-> "findByPathRejects", notebook |-> lookups[l].notebook,
              kernel |-> lookups[l].kernel, asked |-> FALSE]
    /\ UNCHANGED <<pendingKernelChanges, promptMessages, widgetKernel, sessionKernel,
                   attempts, calls, sessionVars, bridgeVars, retryLoops, dispatched, history, locationKeysRef>>

\* ---- the user answers the oldest message ------------------------------------
\* confirmHandler: () => callbackOrParams(resolve), which awaits changeKernel
\* or shutdown
userConfirms ==
    /\ promptMessages # <<>>
    /\ LET m == Head(promptMessages)
       IN  /\ attempts' = attempts \cup
                  {[notebook |-> m.notebook, kernel |-> m.kernel, request |-> m.onConfirm]}
           /\ op' = [name |-> "userConfirms", notebook |-> m.notebook,
                     kernel |-> m.kernel, request |-> m.onConfirm]
    /\ promptMessages' = Tail(promptMessages)
    /\ UNCHANGED <<pendingKernelChanges, widgetKernel, sessionKernel, lookups, calls,
                   sessionVars, bridgeVars, retryLoops, dispatched, history, locationKeysRef>>

\* cancelHandler: () => defaultOnCancel(resolve)
userCancels ==
    /\ promptMessages # <<>>
    /\ op' = [name |-> "userCancels", notebook |-> Head(promptMessages).notebook,
              kernel |-> Head(promptMessages).kernel]
    /\ promptMessages' = Tail(promptMessages)
    /\ UNCHANGED <<pendingKernelChanges, widgetKernel, sessionKernel, lookups, attempts,
                   calls, sessionVars, bridgeVars, retryLoops, dispatched, history, locationKeysRef>>

\* ---- changeKernel or shutdown settles ---------------------------------------
\* try: the widget runs the new kernel, or the session is gone
attemptResolves(a) ==
    /\ a \in attempts
    /\ attempts' = attempts \ {a}
    /\ pendingKernelChanges' = setKernelChangePending(a.notebook, a.kernel, FALSE)
    /\ IF a.request = "changeKernel"
       THEN /\ widgetKernel' = [widgetKernel EXCEPT ![a.notebook] = a.kernel]
            /\ sessionKernel' = [sessionKernel EXCEPT ![a.notebook] = a.kernel]
       ELSE /\ sessionKernel' = [sessionKernel EXCEPT ![a.notebook] = Undef]
            /\ UNCHANGED widgetKernel
    /\ op' = [name |-> "attemptResolves", notebook |-> a.notebook, kernel |-> a.kernel,
              request |-> a.request]
    /\ UNCHANGED <<lookups, promptMessages, calls, sessionVars, bridgeVars, retryLoops, dispatched, history, locationKeysRef>>

\* the catch leaves the pair pending
attemptRejectsKeepsPending(a) ==
    /\ a \in attempts
    /\ attempts' = attempts \ {a}
    /\ op' = [name |-> "attemptRejects", notebook |-> a.notebook, kernel |-> a.kernel,
              request |-> a.request]
    /\ UNCHANGED <<pendingKernelChanges, widgetKernel, sessionKernel, lookups,
                   promptMessages, calls, sessionVars, bridgeVars, retryLoops, dispatched, history, locationKeysRef>>

\* catch: the kernel and the session are what they were
attemptRejects(a) ==
    /\ a \in attempts
    /\ attempts' = attempts \ {a}
    /\ pendingKernelChanges' = setKernelChangePending(a.notebook, a.kernel, FALSE)
    /\ op' = [name |-> "attemptRejects", notebook |-> a.notebook, kernel |-> a.kernel,
              request |-> a.request]
    /\ UNCHANGED <<widgetKernel, sessionKernel, lookups, promptMessages, calls,
                   sessionVars, bridgeVars, retryLoops, dispatched, history, locationKeysRef>>

KernelNext ==
    \/ \E notebook \in Notebooks, kernel \in Kernels : setNotebookKernel(notebook, kernel)
    \/ \E l \in 1..Len(lookups) : findByPathResolves(l)
    \/ \E l \in 1..Len(lookups) : findByPathRejects(l)
    \/ userConfirms
    \/ userCancels
    \/ \E a \in attempts : attemptResolves(a)
    \/ \E a \in attempts : attemptRejects(a)

KernelSpec == KernelInit /\ [][KernelNext]_vars

\* ---- vocabulary of the properties of setNotebookKernel -----------------------
IsSetNotebookKernelStep == calls' = calls + 1 /\ op'.name = "setNotebookKernel"
IsFindByPathResolvesStep == calls' = calls /\ op'.name = "findByPathResolves"
IsUserConfirmsStep == calls' = calls /\ op'.name = "userConfirms"
IsAttemptSettlesStep ==
    calls' = calls /\ op'.name \in {"attemptResolves", "attemptRejects"}

\* the pending flag of the pair, read from the map itself
FlagIs(map, notebook, kernel, value) ==
    /\ PendingKey(notebook, kernel) \in DOMAIN map
    /\ map[PendingKey(notebook, kernel)] = value

\* the messages on the queue that ask about the pair
PromptsFor(queue, notebook, kernel) ==
    { i \in 1..Len(queue) : queue[i].notebook = notebook /\ queue[i].kernel = kernel }

\* ---- C18 -------------------------------------------------------------------
\* C18: a call of setNotebookKernel for a pair whose pending flag is true, and
\* the answer of a findByPath lookup for such a pair, put no message on the
\* queue and change neither the flags nor the kernel requests; and the queue
\* never holds two confirmations for the same pair.
SecondBindingCallIsNoOp ==
    [][ /\ (/\ IsSetNotebookKernelStep \/ IsFindByPathResolvesStep
            /\ FlagIs(pendingKernelChanges, op'.notebook, op'.kernel, TRUE))
            => UNCHANGED <<promptMessages, pendingKernelChanges, attempts>>
        /\ \A notebook \in Notebooks, kernel \in Kernels :
              Cardinality(PromptsFor(promptMessages', notebook, kernel)) <= 1 ]_vars

\* setNotebookKernel was called twice for a notebook that is not open; the
\* first lookup asked the user, the second found the pair pending and did not
SecondLookupAskedNothing ==
    /\ op.name = "findByPathResolves"
    /\ ~op.asked
    /\ calls = 2
    /\ lookups = <<>>
    /\ hasOtherKernel(sessionKernel[op.notebook], op.kernel)
    /\ promptMessages = << Confirm(op.notebook, op.kernel, "shutdown") >>

\* ---- C19 -------------------------------------------------------------------
\* C19: when changeKernel or shutdown settles, with success or with failure,
\* the pending flag of its pair is false; and a call of setNotebookKernel for
\* that pair that comes next asks the user again if the open notebook still
\* runs another kernel.
PendingClearedWhenAttemptSettles ==
    [][ /\ IsAttemptSettlesStep
            => FlagIs(pendingKernelChanges', op'.notebook, op'.kernel, FALSE)
        /\ (/\ IsSetNotebookKernelStep
            /\ op.name \in {"attemptResolves", "attemptRejects"}
            /\ op.notebook = op'.notebook
            /\ op.kernel = op'.kernel
            /\ lab.app
            /\ hasOtherKernel(widgetKernel[op'.notebook], op'.kernel))
            => (op'.asked /\ Len(promptMessages') = Len(promptMessages) + 1) ]_vars

\* the kernel change the user confirmed has failed and the pair is not pending
FailedAttemptNotPending ==
    /\ op.name = "attemptRejects"
    /\ op.request = "changeKernel"
    /\ FlagIs(pendingKernelChanges, op.notebook, op.kernel, FALSE)
    /\ hasOtherKernel(widgetKernel[op.notebook], op.kernel)

\* ---- C20 -------------------------------------------------------------------
\* C20: changeKernel and shutdown are requested only in the step in which the
\* user confirms the oldest message, for the pair of that message: changeKernel
\* when the notebook is open, shutdown when it is not.  A confirmation is put
\* on the queue only by setNotebookKernel for an open notebook whose kernel is
\* another one than the requested, or by the answer of findByPath with a
\* session whose kernel is another one than the requested.
ConfirmBeforeKernelChange ==
    [][ /\ (attempts' \ attempts # {}) => IsUserConfirmsStep
        /\ IsUserConfirmsStep =>
              LET m == Head(promptMessages)
              IN  attempts' = attempts \cup
                      {[notebook |-> m.notebook, kernel |-> m.kernel,
                        request |-> IF widgetKernel[m.notebook] # Undef
                                    THEN "changeKernel" ELSE "shutdown"]}
        /\ (Len(promptMessages') > Len(promptMessages)) =>
              /\ Len(promptMessages') = Len(promptMessages) + 1
              /\ LET m == promptMessages'[Len(promptMessages')]
                 IN  \/ /\ IsSetNotebookKernelStep
                        /\ m.notebook = op'.notebook /\ m.kernel = op'.kernel
                        /\ widgetKernel[m.notebook] \in Kernels \ {m.kernel}
                     \/ /\ IsFindByPathResolvesStep
                        /\ m.notebook = op'.notebook /\ m.kernel = op'.kernel
                        /\ widgetKernel[m.notebook] = Undef
                        /\ sessionKernel[m.notebook] \in Kernels \ {m.kernel} ]_vars

\* the user has confirmed for a notebook that is not open: the shutdown of its
\* session is in flight, while the confirmation for an open notebook waits
ShutdownAfterConfirmation ==
    /\ op.name = "userConfirms"
    /\ op.request = "shutdown"
    /\ widgetKernel[op.notebook] = Undef
    /\ [notebook |-> op.notebook, kernel |-> op.kernel, request |-> "shutdown"] \in attempts
    /\ \E i \in 1..Len(promptMessages) : promptMessages[i].onConfirm = "changeKernel"

\* ---- C21 -------------------------------------------------------------------
IsFixGlitchStep == calls' = calls + 1 /\ op'.name = "fixJupyterRenderingGlitch"

\* the application exists with a widget on screen, and there is no main
\* content panel whose width equals the width of the shell or exceeds MinWidth
Misrendered(app) ==
    /\ app.app
    /\ app.onScreen
    /\ ~(app.layout.found /\ app.layout.panel = app.layout.shell)
    /\ ~(app.layout.found /\ app.layout.panel > MinWidth)

\* C21: fixJupyterRenderingGlitch() reloads the iframe and resets the readiness
\* flag exactly when the application is loaded and the width of its main
\* content panel neither equals the width of the shell nor exceeds 500; in
\* every other case it changes nothing of the bridge.  The call show() makes
\* of it decides in the same way.
GlitchFixReloadsOnlyMisrendered ==
    [][ /\ (IsFixGlitchStep /\ Misrendered(lab))
            => /\ nav' = href
               /\ ~iframeHasLoaded'
               /\ UNCHANGED <<hidden, baseAddress, reloadOnShow, showCheckInterval,
                              timers, href, docLoaded, lab>>
        /\ (IsFixGlitchStep /\ ~Misrendered(lab)) => UNCHANGED bridgeVars
        /\ IsShowStep => (op'.reloaded <=> Misrendered(lab)) ]_vars

\* a panel exactly 500 wide in a wider shell: the iframe is being reloaded
ReloadedAtThreshold ==
    /\ op.name = "fixJupyterRenderingGlitch"
    /\ op.reloaded
    /\ lab.app
    /\ lab.layout.found
    /\ lab.layout.panel = MinWidth
    /\ nav = href
    /\ ~iframeHasLoaded

\* ---- navigateTo(filePath) ---------------------------------------------------
MaxNavigateCalls == 1

\* tryUntilTrue(action, 100, 250): the number of retries
Retries == 100

\* what one openOrReveal(filePath) / findWidget(filePath) pair can do: the
\* widget is there afterwards, it is not, or one of the calls throws
Outcomes == {"opened", "missing", "throws"}

\* updateJupyterInstance("/jupyter-a"); show() on the constructed bridge: the
\* iframe has been sent to the lab and the show poll runs
NavigateInit ==
    /\ SessionsInit
    /\ calls = 0
    /\ op = [name |-> "init"]
    /\ hidden = TRUE
    /\ baseAddress = "/jupyter-a"
    /\ reloadOnShow = FALSE
    /\ iframeHasLoaded = FALSE
    /\ showCheckInterval = 1
    /\ timers = {1}
    /\ href = Blank
    /\ nav = LabUrl("/jupyter-a")
    /\ docLoaded = FALSE
    /\ lab = NoLab
    /\ pendingKernelChanges = [k \in {} |-> TRUE]
    /\ NoDocuments
    /\ NoListener

\* the application as it starts in a fresh document: no widget is open yet
FreshLabs == { app \in Labs : app.widgets = <<>> }

\* starts a loop for the empty path as well
navigateToAnyPath(filePath) ==
    /\ calls < MaxNavigateCalls
    /\ calls' = calls + 1
    /\ retryLoops' = Append(retryLoops, [filePath |-> filePath, left |-> Retries,
                                         state |-> "trying"])
    /\ op' = [name |-> "navigateTo", filePath |-> filePath]
    /\ UNCHANGED <<bridgeVars, sessionVars, kernelVars, dispatched, history, locationKeysRef>>

\* navigateTo(filePath): nothing for an empty path, else a retry loop starts
navigateTo(filePath) ==
    /\ calls < MaxNavigateCalls
    /\ calls' = calls + 1
    /\ retryLoops' = IF filePath = ""
                     THEN retryLoops
                     ELSE Append(retryLoops, [filePath |-> filePath, left |-> Retries,
                                              state |-> "trying"])
    /\ op' = [name |-> "navigateTo", filePath |-> filePath]
    /\ UNCHANGED <<bridgeVars, sessionVars, kernelVars, dispatched, history, locationKeysRef>>

\* one run of the function navigateTo hands to tryUntilTrue, and what the
\* retry loop does with its answer
retryAttempt(i, outcome) ==
    /\ retryLoops[i].state = "trying"
    /\ LET loop   == retryLoops[i]
           ready  == isJupyterShellRenderedCorrectly(lab) /\ isJupyterLoaded(lab)
           worked == ready /\ outcome = "opened"
       IN  \* the document manager is called only when ready
           /\ (~ready) => outcome = "missing"
           /\ widgetKernel' =
                 IF worked /\ widgetKernel[loop.filePath] = Undef
                 THEN [widgetKernel EXCEPT ![loop.filePath] = NoKernel]
                 ELSE widgetKernel
           /\ retryLoops' =
                 [retryLoops EXCEPT ![i] =
                     IF worked
                     THEN [loop EXCEPT !.state = "done"]
                     ELSE [loop EXCEPT !.left = loop.left - 1,
                                       !.state = IF loop.left = 1 THEN "exhausted"
                                                 ELSE "trying"]]
           /\ op' = [name |-> "retryAttempt", loop |-> i, ready |-> ready,
                     called |-> ready, worked |-> worked]
    /\ UNCHANGED <<bridgeVars, sessionVars, calls, sessionKernel, lookups, promptMessages,
                   dispatched, history, locationKeysRef,
                   attempts, pendingKernelChanges>>

\* the retry loops read the inner application only, which the commit of the
\* navigation and the start of the application change; the load event and the
\* show poll change nothing the loops read
NavigateNext ==
    \/ \E filePath \in Notebooks \cup {""} : navigateTo(filePath)
    \/ \E i \in 1..Len(retryLoops) : \E outcome \in Outcomes : retryAttempt(i, outcome)
    \/ navigationCommits
    \/ \E app \in FreshLabs : appInitializes(app)

NavigateSpec == NavigateInit /\ [][NavigateNext]_vars

\* ---- C22 -------------------------------------------------------------------
IsNavigateToStep == calls' = calls + 1 /\ op'.name = "navigateTo"
IsRetryAttemptStep == calls' = calls /\ op'.name = "retryAttempt"

\* C22: navigateTo with an empty path starts nothing; with a path it starts
\* one loop with the full number of retries.  An attempt is made only by a
\* loop that is still trying; it opens the document only when the application
\* is loaded and rendered correctly; an attempt that worked ends the loop; any
\* other attempt uses up one retry and, at the last one, ends the loop; no
\* attempt asks or tells the user anything.
NavigateToRetriesBounded ==
    [][ /\ IsNavigateToStep =>
              IF op'.filePath = ""
              THEN UNCHANGED <<retryLoops, bridgeVars, kernelVars>>
              ELSE /\ retryLoops' = Append(retryLoops, [filePath |-> op'.filePath,
                                                        left |-> Retries,
                                                        state |-> "trying"])
                   /\ UNCHANGED <<bridgeVars, kernelVars>>
        /\ IsRetryAttemptStep =>
              LET i == op'.loop
              IN  /\ retryLoops[i].state = "trying"
                  /\ retryLoops[i].left \in 1..Retries
                  /\ (widgetKernel' # widgetKernel \/ op'.called \/ op'.worked)
                        => (isJupyterLoaded(lab) /\ isJupyterShellRenderedCorrectly(lab))
                  /\ op'.worked => /\ retryLoops'[i].state = "done"
                                   /\ widgetKernel'[retryLoops[i].filePath] # Undef
                  /\ ~op'.worked =>
                        /\ retryLoops'[i].left = retryLoops[i].left - 1
                        /\ retryLoops'[i].state =
                              IF retryLoops'[i].left = 0 THEN "exhausted" ELSE "trying"
                        /\ widgetKernel' = widgetKernel
                  /\ \A j \in 1..Len(retryLoops) : j # i => retryLoops'[j] = retryLoops[j]
                  /\ Len(retryLoops') = Len(retryLoops)
                  /\ promptMessages' = promptMessages
                  /\ UNCHANGED bridgeVars
        /\ (~IsNavigateToStep /\ ~IsRetryAttemptStep) => retryLoops' = retryLoops ]_vars

\* the last retry was spent on an attempt that found the application ready
\* and still did not find the widget: the loop is over, nobody was told
NavigateGaveUpSilently ==
    /\ op.name = "retryAttempt"
    /\ op.called
    /\ ~op.worked
    /\ retryLoops[op.loop].state = "exhausted"
    /\ retryLoops[op.loop].left = 0
    /\ widgetKernel[retryLoops[op.loop].filePath] = Undef
    /\ promptMessages = <<>>

\* ---- C23 -------------------------------------------------------------------
\* C23: isJupyterLoaded() and isJupyterShellRenderedCorrectly() always answer
\* true or false: false when the application has not started, and for the
\* second also when the shell has no main content panel; isJupyterLoaded()
\* answers true only when the application exists and a widget is on screen.
IntrospectionAnswersNotReady ==
    /\ isJupyterLoaded(lab) \in BOOLEAN
    /\ isJupyterShellRenderedCorrectly(lab) \in BOOLEAN
    /\ ~lab.app => (~isJupyterLoaded(lab) /\ ~isJupyterShellRenderedCorrectly(lab))
    /\ (lab.app /\ ~lab.layout.found) => ~isJupyterShellRenderedCorrectly(lab)
    /\ isJupyterLoaded(lab) => (lab.app /\ lab.onScreen)
    /\ (lab.app /\ lab.onScreen) => isJupyterLoaded(lab)

\* fixJupyterRenderingGlitch() asked both about a shell without a main content
\* panel: loaded, not rendered correctly, and so it reloaded
AskedShellWithoutPanel ==
    /\ op.name = "fixJupyterRenderingGlitch"
    /\ op.reloaded
    /\ lab.app
    /\ lab.onScreen
    /\ ~lab.layout.found

\* ---- C24 -------------------------------------------------------------------
\* the stop request of a toggleSession call is answered with success
IsToggleStopResolvesStep ==
    /\ calls' = calls
    /\ op'.name = "stopResolves"
    /\ requests[op'.request].by = 0

\* C24: stopping one session through toggleSession removes nothing: the call
\* leaves the entry it found in the registry, with status STOPPING; the
\* success of its stop request leaves the registry exactly as it is; and the
\* registry loses entries only in a step of deleteAllSessions (the call, or
\* the answer that completes it) or of an outside SET_SESSIONS.
ToggleStopKeepsEntry ==
    [][ /\ (IsToggleStep /\ op'.status = "RUNNING")
            => /\ Len(sessions') = Len(sessions)
               /\ Get(sessions'[op'.found], "status") = "STOPPING"
        /\ IsToggleStopResolvesStep => sessions' = sessions
        /\ Len(sessions') < Len(sessions)
            => \/ op'.name \in {"deleteAllSessions", "SET_SESSIONS"}
               \/ op'.name = "stopResolves" /\ requests[op'.request].by > 0 ]_vars

\* the stop request of toggleSession has succeeded and the entry is there,
\* still STOPPING
StoppedEntryStays ==
    /\ op.name = "stopResolves"
    /\ requests[op.request].by = 0
    /\ \E i \in 1..Len(sessions) :
          /\ isSession(sessions[i], CamelId(requests[op.request].projectUuid,
                                            requests[op.request].pipelineUuid))
          /\ Get(sessions[i], "status") = "STOPPING"

\* ---- C25 -------------------------------------------------------------------
\* C25: a show() that finds the reload-on-show flag set reverts every open
\* notebook panel that is not dirty, once each, and clears the flag; when the
\* inner application has not started yet it keeps the flag, so that the
\* reload is still to come.
DeferredReloadSurvivesShow ==
    [][ (IsShowStep /\ reloadOnShow) =>
          IF lab.app
          THEN op'.reverted = RevertedBy(lab) /\ ~reloadOnShow'
          ELSE reloadOnShow' ]_vars

\* ---- C26 -------------------------------------------------------------------
\* C26: whatever reloadFilesFromDisk, show and hide are called in whatever
\* order, every widget that was reverted is a notebook panel, is not dirty and
\* has a context.
NeverRevertsUnsavedOrClosed ==
    "reverted" \in DOMAIN op =>
        \A i \in 1..Len(op.reverted) :
            /\ op.reverted[i].notebookPanel
            /\ ~op.reverted[i].dirty
            /\ op.reverted[i].ctx

\* show() has reverted a panel of a shell that also holds a dirty panel, a
\* widget that is no notebook and a panel without context
RevertedBesideDirtyPanel ==
    /\ op.name = "show"
    /\ Len(op.reverted) > 0
    /\ \E w \in ShellWidgets :
          /\ op.reverted = SelectSeq(w, LAMBDA x : x.notebookPanel /\ ~x.dirty /\ x.ctx)
          /\ \E i \in 1..Len(w) : w[i].dirty
          /\ \E i \in 1..Len(w) : ~w[i].notebookPanel
          /\ \E i \in 1..Len(w) : ~w[i].ctx

\* ---- C27 -------------------------------------------------------------------
\* C27: under any interleaving of toggleSession, deleteAllSessions and the
\* answers to launch requests, an entry whose status is STOPPING is not given
\* the status LAUNCHING or RUNNING again: after such a step the entry at the
\* same place, if the registry was not cleared, is still STOPPING.
StoppingNeverGoesBack ==
    [][ op'.name \in {"toggleSession", "deleteAllSessions", "launchResolves", "launchRejects"}
          => \A i \in 1..Len(sessions) :
                (Get(sessions[i], "status") = "STOPPING" /\ i <= Len(sessions'))
                   => Get(sessions'[i], "status") = "STOPPING" ]_vars

\* ---- C28 -------------------------------------------------------------------
\* the step clears the registry for the k-th call of deleteAllSessions
IsClearStep(k) ==
    /\ k \in 1..Len(bulks')
    /\ bulks'[k].state = "cleared"
    /\ k > Len(bulks) \/ bulks[k].state # "cleared"

\* the step before this state cleared the registry
JustCleared ==
    \/ op.name = "deleteAllSessions" /\ bulks[Len(bulks)].state = "cleared"
    \/ /\ op.name = "stopResolves"
       /\ requests[op.request].by > 0
       /\ bulks[requests[op.request].by].state = "cleared"

\* the k-th call of deleteAllSessions has sent a stop request for that entry
StopSentBy(k, reqs, entry) ==
    \E r \in 1..Len(reqs) :
        /\ reqs[r].method = "DELETE"
        /\ reqs[r].by = k
        /\ reqs[r].projectUuid = getSessionValue(entry).projectUuid
        /\ reqs[r].pipelineUuid = getSessionValue(entry).pipelineUuid

\* C28: every entry that is in the registry when deleteAllSessions clears it
\* is STOPPING or was sent a stop request by that call, so that no session
\* launched meanwhile is dropped unstopped; and a launch answer that arrives
\* right after the clear adds no entry to the cleared registry.
ClearDropsOnlyStopped ==
    [][ /\ \A k \in 1..Len(bulks') :
              IsClearStep(k) =>
                  \A i \in 1..Len(sessions) :
                      \/ Get(sessions[i], "status") = "STOPPING"
                      \/ StopSentBy(k, requests', sessions[i])
        /\ (JustCleared /\ calls' = calls /\ op'.name = "launchResolves")
              => sessions' = <<>> ]_vars

\* ---- C29 -------------------------------------------------------------------
\* the requests the step has issued
IssuedInStep == { r \in 1..Len(requests') : r > Len(requests) }

\* C29: every stop request that toggleSession or deleteAllSessions issues
\* names a project and a pipeline, and they are the identity of an entry that
\* was RUNNING or LAUNCHING in the registry when the call was made, whichever
\* way the fields of that entry are spelled.
StopRequestsNameStoppableEntry ==
    [][ \A r \in IssuedInStep :
            requests'[r].method = "DELETE" =>
                /\ requests'[r].projectUuid # Undef
                /\ requests'[r].pipelineUuid # Undef
                /\ \E i \in 1..Len(sessions) :
                      /\ isStoppable(Get(sessions[i], "status"))
                      /\ getSessionValue(sessions[i]).projectUuid = requests'[r].projectUuid
                      /\ getSessionValue(sessions[i]).pipelineUuid = requests'[r].pipelineUuid
      ]_vars

\* ---- C30 -------------------------------------------------------------------
\* C30: whenever the holder goes from hidden to visible, the iframe shows the
\* lab of the current base address and it is the load of that document that
\* has been seen; in particular a poll that show() started before
\* updateJupyterInstance changed the address does not unhide the holder on
\* about:blank.
UnhidesOnlyOnTargetDocument ==
    [][ (hidden /\ ~hidden')
          => /\ href = LabUrl(baseAddress)
             /\ docLoaded ]_vars

\* ---- C31 -------------------------------------------------------------------
\* C31: at most one interval of show() is set at any time, and it is the one
\* showCheckInterval names: show() clears the interval of an earlier show()
\* before it sets its own, hide() leaves none set, and the holder becomes
\* visible only in the callback of the interval of the latest show(), which
\* no hide() has followed.
AtMostOneShowPoll ==
    [][ /\ Cardinality(timers') <= 1
        /\ timers' \subseteq {showCheckInterval'}
        /\ IsShowStep => /\ timers' = {showCheckInterval'}
                         /\ showCheckInterval' \notin timers
        /\ IsHideStep => timers' = {}
        /\ (hidden /\ ~hidden') => /\ op'.name = "pollTick"
                                   /\ op'.timer = showCheckInterval
                                   /\ timers = {showCheckInterval} ]_vars

\* a second show() found the poll of the first still running and replaced it
SecondShowReplacedPoll ==
    /\ op.name = "show"
    /\ op.cleared
    /\ hidden
    /\ timers = {showCheckInterval}
    /\ showCheckInterval = calls

\* ---- C32 -------------------------------------------------------------------
\* C32: a pending flag that is true is on its way to being reset: either the
\* confirmation for the pair is still on the queue, waiting for the user, or
\* the request the user confirmed is in flight.  A flag that is true with
\* neither is never reset, and setNotebookKernel never asks about the pair
\* again.
PendingFlagIsResetAfterAnswer ==
    \A notebook \in Notebooks, kernel \in Kernels :
        FlagIs(pendingKernelChanges, notebook, kernel, TRUE)
            => \/ PromptsFor(promptMessages, notebook, kernel) # {}
               \/ \E a \in attempts : a.notebook = notebook /\ a.kernel = kernel

\* ===========================================================================
\* The queue of prompt messages (AppContext)
\*
\* setAlert, setConfirm and deletePromptMessage give dispatch a function of
\* the store; React keeps the functions in the order of the calls and the
\* reducer runs each on the state the one before it has left.
\* ===========================================================================

\* calls of setAlert, setConfirm and deletePromptMessage in a run
MaxPromptCalls == 4

Titles == {"Error", "Warning"}

\* convertAlert / convertConfirm: the message of the call; its handlers close
\* over the promise of that call, which the number of the call stands for
PromptMessage(type, title, call) == [type |-> type, title |-> title, call |-> call]

\* puts the new message in front of the queue
updaterPrepends(queue, action) ==
    IF action.kind = "append"
    THEN <<action.message>> \o queue
    ELSE SubSeq(queue, 2, Len(queue))

\* the function given to dispatch, run on store.promptMessages:
\* [...store.promptMessages, message] or store.promptMessages.slice(1)
updater(queue, action) ==
    IF action.kind = "append"
    THEN queue \o <<action.message>>
    ELSE SubSeq(queue, 2, Len(queue))

\* initialState: promptMessages: []
PromptInit ==
    /\ SessionsInit
    /\ calls = 0
    /\ op = [name |-> "init"]
    /\ Constructed
    /\ NoDocuments
    /\ NoListener

\* setAlert(title, content) and setConfirm(title, content, callback)
withPromptMessageDispatcher(type, title) ==
    /\ calls < MaxPromptCalls
    /\ calls' = calls + 1
    /\ dispatched' = Append(dispatched,
                            [kind |-> "append",
                             message |-> PromptMessage(type, title, calls + 1)])
    /\ op' = [name |-> IF type = "alert" THEN "setAlert" ELSE "setConfirm",
              message |-> PromptMessage(type, title, calls + 1)]
    /\ UNCHANGED <<sessionVars, bridgeVars, kernelVars, retryLoops, history,
                   locationKeysRef>>

deletePromptMessage ==
    /\ calls < MaxPromptCalls
    /\ calls' = calls + 1
    /\ dispatched' = Append(dispatched, [kind |-> "slice"])
    /\ op' = [name |-> "deletePromptMessage"]
    /\ UNCHANGED <<sessionVars, bridgeVars, kernelVars, retryLoops, history,
                   locationKeysRef>>

\* reducer, case "SET_PROMPT_MESSAGES", for the oldest action not yet run
reducer ==
    /\ dispatched # <<>>
    /\ promptMessages' = updater(promptMessages, Head(dispatched))
    /\ dispatched' = Tail(dispatched)
    /\ op' = [name |-> "reducer", action |-> Head(dispatched)]
    /\ UNCHANGED <<calls, sessionVars, bridgeVars, pendingKernelChanges, widgetKernel,
                   sessionKernel, lookups, attempts, retryLoops, history,
                   locationKeysRef>>

PromptNext ==
    \/ \E type \in {"alert", "confirm"}, title \in Titles :
          withPromptMessageDispatcher(type, title)
    \/ deletePromptMessage
    \/ reducer

PromptSpec == PromptInit /\ [][PromptNext]_vars

\* ---- C33 -------------------------------------------------------------------
IsSetPromptStep == calls' = calls + 1 /\ op'.name \in {"setAlert", "setConfirm"}
IsDeletePromptStep == calls' = calls + 1 /\ op'.name = "deletePromptMessage"
IsReducerStep == calls' = calls /\ op'.name = "reducer"

\* C33: the prompt messages are a first-in first-out queue.  A call of
\* setAlert or setConfirm hands over one action, and when the reducer runs it
\* the message of that call is added behind all the messages the queue holds
\* by then; when it runs the action of deletePromptMessage the oldest message
\* alone leaves; the other messages stay as they are and in their order, so
\* the queue always holds the messages in the order of their calls.
PromptMessagesAreFifo ==
    [][ /\ (IsSetPromptStep \/ IsDeletePromptStep)
            => /\ Len(dispatched') = Len(dispatched) + 1
               /\ SubSeq(dispatched', 1, Len(dispatched)) = dispatched
               /\ promptMessages' = promptMessages
        /\ (IsReducerStep /\ op'.action.kind = "append")
            => /\ Len(promptMessages') = Len(promptMessages) + 1
               /\ promptMessages'[Len(promptMessages')] = op'.action.message
               /\ SubSeq(promptMessages', 1, Len(promptMessages)) = promptMessages
        /\ (IsReducerStep /\ op'.action.kind = "slice")
            => promptMessages' = IF promptMessages = <<>> THEN <<>> ELSE Tail(promptMessages)
        /\ \A i, j \in 1..Len(promptMessages') :
              i < j => promptMessages'[i].call < promptMessages'[j].call ]_vars

\* three messages were asked for in one go, the oldest has been taken off, and
\* the two that are left are in the order of their calls
OldestLeftOthersInOrder ==
    /\ op.name = "reducer"
    /\ op.action.kind = "slice"
    /\ dispatched = <<>>
    /\ Len(promptMessages) = 2
    /\ promptMessages[1].call = 2
    /\ promptMessages[2].call = 3
    /\ promptMessages[1].type # promptMessages[2].type

\* ===========================================================================
\* useHistoryListener
\*
\* history is the object of react-router: the entries of the session history
\* by their location keys, and the place of the current one.  A PUSH drops the
\* entries after the current one and adds a new one; a POP moves to an entry
\* that exists.  The listener runs after each of them.
\* ===========================================================================

\* PUSH and POP navigations in a run
MaxHistoryCalls == 5

\* the keys of the entries the history holds when the listener is mounted;
\* the keys of the entries pushed later are the numbers of the navigations
MountKeys == <<101, 102, 103>>

\* React.useRef([]), and the effect has subscribed: the component mounts on
\* any entry of a history that has one to three entries
HistoryInit ==
    /\ SessionsInit
    /\ calls = 0
    /\ op = [name |-> "init"]
    /\ Constructed
    /\ NoDocuments
    /\ \E n \in 1..Len(MountKeys), i \in 1..Len(MountKeys) :
          /\ i <= n
          /\ history = [entries |-> SubSeq(MountKeys, 1, n), index |-> i]
    /\ locationKeysRef = <<>>

\* const isForward = locationKeysRef.current[1] === location.key
isForward(key) == Len(locationKeysRef) >= 2 /\ locationKeysRef[2] = key

\* history.push(...): the listener sees the action PUSH and the new location
PUSH ==
    /\ calls < MaxHistoryCalls
    /\ calls' = calls + 1
    /\ LET key == calls + 1
       IN  /\ history' = [entries |-> Append(SubSeq(history.entries, 1, history.index), key),
                          index   |-> history.index + 1]
           /\ locationKeysRef' = <<key>>
           /\ op' = [name |-> "PUSH", key |-> key, called |-> "onPush"]
    /\ UNCHANGED <<sessionVars, bridgeVars, kernelVars, retryLoops, dispatched>>

\* the place in the history one step back or forward (0: there is none)
Target(direction) ==
    IF direction = "back"
    THEN history.index - 1
    ELSE IF history.index < Len(history.entries) THEN history.index + 1 ELSE 0

\* the back or the forward button, or history.go(-1) and history.go(1): the
\* listener sees the action POP and the location of the entry moved to
POP(direction) ==
    /\ calls < MaxHistoryCalls
    /\ calls' = calls + 1
    /\ Target(direction) # 0
    /\ LET key == history.entries[Target(direction)]
       IN  /\ history' = [history EXCEPT !.index = Target(direction)]
           /\ locationKeysRef' = IF isForward(key)
                                 THEN Tail(locationKeysRef)
                                 ELSE <<key>> \o locationKeysRef
           /\ op' = [name |-> "POP", key |-> key, direction |-> direction,
                     called |-> IF isForward(key) THEN "forward" ELSE "backward"]
    /\ UNCHANGED <<sessionVars, bridgeVars, kernelVars, retryLoops, dispatched>>

HistoryNext ==
    \/ PUSH
    \/ \E direction \in {"back", "forward"} : POP(direction)

HistorySpec == HistoryInit /\ [][HistoryNext]_vars

\* ---- C34 -------------------------------------------------------------------
IsPushStep == calls' = calls + 1 /\ op'.name = "PUSH"
IsPopStep == calls' = calls + 1 /\ op'.name = "POP"

\* C34: after the listener is mounted, every PUSH calls onPush, every POP that
\* moves one entry forward calls forward and every POP that moves one entry
\* back calls backward, and none of them calls anything else.
ListenerTellsDirection ==
    [][ /\ IsPushStep => op'.called = "onPush"
        /\ (IsPopStep /\ op'.direction = "forward") => op'.called = "forward"
        /\ (IsPopStep /\ op'.direction = "back") => op'.called = "backward" ]_vars

====
